---- MODULE Spec2Model ----
(***************************************************************************)
(* Model of sleek (src/main.rs): an X11 screen-region capture tool.        *)
(*                                                                         *)
(* Spec      main(): init_x, the handle_events loop, save_selection and    *)
(*           the Drop of RenderWindow.                                     *)
(* PathSpec  the output-path normalisation of save_selection, applied to   *)
(*           every formatted argument of bounded length.                   *)
(* PixelSpec the pixel conversion of save_selection, applied to pixels     *)
(*           composed under channel masks of bounded width, in any order.  *)
(* RectSpec  the rectangle of draw_selection and save_selection, computed  *)
(*           for every pair of points of a bounded square.                 *)
(***************************************************************************)
EXTENDS Integers, Sequences, FiniteSets, TLC

VARIABLES
    pc,           \* position of main: "start", "loop", "exited", "panicked", "crashed"
    exit_status,  \* process exit status once main has ended, -1 before
    acquired,     \* X resources acquired by init_x and not handed to a RenderWindow's Drop
    released,     \* the release calls made so far, in order
    screen_data,  \* ScreenData { width, height, rmask, gmask, bmask }
    point_one,    \* handle_events local
    point_two,    \* handle_events local
    selection,    \* handle_events local: SelectionState
    last_update,  \* handle_events local: Instant of the last throttled redraw
    now,          \* the monotonic clock read by Instant::now()
    event,        \* the XEvent fetched by the last XNextEvent
    overlay,      \* what the overlay window shows: its background, or background + outline
    calls,        \* the X / image calls made while handling the last event, in order
    capture,      \* the rectangles passed to XGetImage by save_selection, in order
    rgb_len,      \* length of the Vec<u8> built by save_selection, -1 when none was built
    output,       \* the files written by image::save_buffer
    formatted,    \* the String produced by Local::now().format(argument)
    filepath,     \* save_selection local: the resolved output path
    gesture,      \* history: "none" (no Button1 press yet), "pressed", "released" (Button1 released since the last press)
    pressed_at,   \* history: position of the last Button1 press
    released_at,  \* history: position of the last Button1 release (of the press while a drag is under way)
    request,      \* history: the last throttle request of the drag under way, <<>> if none
    prev_request, \* history: the throttle request before it in that drag, <<>> if none
    move_draw_at, \* history: time of the last pointer-move redraw, -1 if none
    prev_move_draw_at, \* history: time of the pointer-move redraw before it, -1 if none
    pixel,        \* save_selection: one u32 of the XImage data, as the set of its 1 bits
    placed,       \* history: the channel values <<r, g, b>> pixel was composed of
    rgb           \* save_selection: the [u8; 3] the closure returns for pixel, <<>> before

vars == <<pc, exit_status, acquired, released, screen_data, point_one, point_two,
          selection, last_update, now, event, overlay, calls, capture, rgb_len,
          output, formatted, filepath, gesture, pressed_at, released_at,
          request, prev_request, move_draw_at, prev_move_draw_at, pixel, placed, rgb>>

loopVars == <<point_one, point_two, selection, last_update>>
histVars == <<gesture, pressed_at, released_at, request, prev_request,
              move_draw_at, prev_move_draw_at>>
saveVars == <<capture, rgb_len, output, filepath>>
exitVars == <<pc, exit_status, released>>

-----------------------------------------------------------------------------
(* Bounds of the model *)

\* pointer positions range over the columns 0..MaxX of the rows 0 and 1
MaxX == 1
\* the clock stops advancing after MaxPeriods throttle periods
MaxPeriods == 2
\* longest formatted argument of PathSpec
MaxLen == 8
\* widest channel mask of PixelSpec
MaxBits == 9
\* the points of RectSpec have coordinates in -MaxCoord..MaxCoord
MaxCoord == 2

-----------------------------------------------------------------------------
(* Constants of the program *)

REFRESH_RATE == 60

\* ((0.5 / REFRESH_RATE as f64) * 1000000000.0) as u64, in nanoseconds
MIN_TIME_BETWEEN_UPDATES == (5 * 100000000) \div REFRESH_RATE

Button1 == 1
KeycodeEsc == 9
KeycodeEnter == 36

-----------------------------------------------------------------------------
(* Point *)

Point(x, y) == [x |-> x, y |-> y]

Min(a, b) == IF a <= b THEN a ELSE b
Max(a, b) == IF a >= b THEN a ELSE b

PointMin(p, other) == [x |-> Min(p.x, other.x), y |-> Min(p.y, other.y)]
PointMax(p, other) == [x |-> Max(p.x, other.x), y |-> Max(p.y, other.y)]

\* a plausible bug: the first point taken as origin, the size left signed
Rect_unnormalised(p1, p2) ==
    [x |-> p1.x, y |-> p1.y, width |-> p2.x - p1.x, height |-> p2.y - p1.y]

\* min, max, width and height as draw_selection and save_selection compute them
Rect(p1, p2) ==
    LET min == PointMin(p1, p2)
        max == PointMax(p1, p2)
    IN  [x |-> min.x, y |-> min.y, width |-> max.x - min.x, height |-> max.y - min.y]

-----------------------------------------------------------------------------
(* Output path: save_selection, lines 390-399 *)

Whitespace == {" "}
PNG == <<".", "p", "n", "g">>

RECURSIVE TrimStart(_)
TrimStart(s) ==
    IF s # <<>> /\ Head(s) \in Whitespace THEN TrimStart(Tail(s)) ELSE s

RECURSIVE TrimEnd(_)
TrimEnd(s) ==
    IF s # <<>> /\ s[Len(s)] \in Whitespace THEN TrimEnd(SubSeq(s, 1, Len(s) - 1)) ELSE s

\* str::trim
Trim(s) == TrimEnd(TrimStart(s))

StartsWith(s, pat) == Len(s) >= Len(pat) /\ SubSeq(s, 1, Len(pat)) = pat
EndsWith(s, pat) == Len(s) >= Len(pat) /\ SubSeq(s, Len(s) - Len(pat) + 1, Len(s)) = pat

\* str::replace(from, to): the non-overlapping matches of a non-empty from,
\* found left to right in the original string, each replaced by to
RECURSIVE Replace(_, _, _)
Replace(s, from, to) ==
    IF s = <<>> THEN <<>>
    ELSE IF StartsWith(s, from)
         THEN to \o Replace(SubSeq(s, Len(from) + 1, Len(s)), from, to)
         ELSE <<Head(s)>> \o Replace(Tail(s), from, to)

\* a plausible bug: the user's suffix is kept
ResolvePath_keep(f) == Trim(f) \o PNG

\* format!(..).trim().replace(".png", "") + ".png"
ResolvePath(f) == Replace(Trim(f), PNG, <<>>) \o PNG

-----------------------------------------------------------------------------
(* Frame throttle and clock *)

\* a plausible bug: >= for >
ThrottleAllows_ge(elapsed) == elapsed >= MIN_TIME_BETWEEN_UPDATES

\* a plausible bug: a whole frame period for half of one
ThrottleAllows_fullPeriod(elapsed) == elapsed > 2 * MIN_TIME_BETWEEN_UPDATES

\* last_update.elapsed().as_nanos() > MIN_TIME_BETWEEN_UPDATES as u128
ThrottleAllows(elapsed) == elapsed > MIN_TIME_BETWEEN_UPDATES

\* time that passes while XNextEvent blocks
ClockSteps == {MIN_TIME_BETWEEN_UPDATES, MIN_TIME_BETWEEN_UPDATES + 1}
\* time between the Instant::now() of elapsed() and the one stored in last_update
DrawLags == {0, 1}
MaxTime == MaxPeriods * (MIN_TIME_BETWEEN_UPDATES + 1)

-----------------------------------------------------------------------------
(* Display *)

Cleared == [outline |-> FALSE, x |-> 0, y |-> 0, width |-> 0, height |-> 0]
\* a plausible bug: the overlay is not cleared
ClearWindow_skipped(shown) == shown

\* XClearWindow: the window shows its background again
ClearWindow(shown) == Cleared

Outline(r) == [outline |-> TRUE, x |-> r.x, y |-> r.y, width |-> r.width, height |-> r.height]

\* draw_selection: XClearWindow, then XDrawRectangle(min.x, min.y, width, height)
DrawSelection(p1, p2) == Outline(Rect(p1, p2))

DrawCalls == <<"XClearWindow", "XDrawRectangle">>

\* impl Drop for RenderWindow
DropRenderWindow == <<"XFreeGC", "XDestroyWindow", "XCloseDisplay">>

Positions == {Point(x, y) : x \in 0..MaxX, y \in 0..1}
\* the button events XNextEvent delivers: the primary button anywhere, another
\* button at the origin
ButtonEvents ==
    {[pos |-> p, button |-> Button1] : p \in Positions}
        \cup {[pos |-> Point(0, 0), button |-> 3]}
Keycodes == {KeycodeEsc, KeycodeEnter, 38}

NoEvent == [type |-> "none", x |-> 0, y |-> 0, button |-> 0, keycode |-> 0]

-----------------------------------------------------------------------------
(* main and init_x *)

\* a u32 is modelled as the set of the positions of its 1 bits, 0 the lowest
U32Bits == 0..31
\* the word whose 1 bits are the width bits from position low upwards
Bits(low, width) == low..(low + width - 1)

\* the root window geometry XGetGeometry reports and the channel masks of the
\* TrueColor visual XMatchVisualInfo finds (0xff0000, 0xff00, 0xff)
ScreenSizes == {[width |-> MaxX + 2, height |-> 2,
                 rmask |-> Bits(16, 8), gmask |-> Bits(8, 8), bmask |-> Bits(0, 8)]}

DefaultName == <<"s">>

Init ==
    /\ pc = "start"
    /\ exit_status = -1
    /\ acquired = {}
    /\ released = <<>>
    /\ screen_data = [width |-> 0, height |-> 0, rmask |-> {}, gmask |-> {}, bmask |-> {}]
    /\ point_one = Point(0, 0)
    /\ point_two = Point(0, 0)
    /\ selection = "NotCreated"
    /\ last_update = 0
    /\ now = 0
    /\ event = NoEvent
    /\ overlay = Cleared
    /\ calls = <<>>
    /\ capture = <<>>
    /\ rgb_len = -1
    /\ output = <<>>
    /\ formatted = DefaultName
    /\ filepath = <<>>
    /\ gesture = "none"
    /\ pressed_at = Point(0, 0)
    /\ released_at = Point(0, 0)
    /\ request = <<>>
    /\ prev_request = <<>>
    /\ move_draw_at = -1
    /\ prev_move_draw_at = -1
    /\ pixel = {}
    /\ placed = <<0, 0, 0>>
    /\ rgb = <<>>

\* what init_x holds when it panics at the named call: nothing when XOpenDisplay
\* returned null, the open display (a raw pointer, owned by no RenderWindow) after that
HeldAtPanic(failure) == IF failure = "XOpenDisplay" THEN {} ELSE {"display"}

\* init_x panics: XOpenDisplay returned null, XGetGeometry returned BadDrawable,
\* or XMatchVisualInfo found no visual. No RenderWindow exists yet, so nothing is dropped.
InitXPanics ==
    /\ pc = "start"
    /\ \E failure \in {"XOpenDisplay", "XGetGeometry", "XMatchVisualInfo"} :
          acquired' = HeldAtPanic(failure)
    /\ pc' = "panicked"
    /\ exit_status' = 101
    /\ UNCHANGED <<released, screen_data, now, event, overlay, calls, formatted, pixel, placed, rgb>>
    /\ UNCHANGED <<loopVars, histVars, saveVars>>

\* init_x returns a RenderWindow and handle_events initialises its locals
MainStart ==
    /\ pc = "start"
    /\ \E sd \in ScreenSizes : screen_data' = sd
    /\ acquired' = {"display", "window", "gc"}
    /\ overlay' = Cleared
    /\ point_one' = Point(0, 0)
    /\ point_two' = Point(0, 0)
    /\ selection' = "NotCreated"
    /\ last_update' = now
    /\ pc' = "loop"
    /\ UNCHANGED <<exit_status, released, now, event, calls, formatted, pixel, placed, rgb>>
    /\ UNCHANGED <<histVars, saveVars>>

\* main returns, or a panic unwinds through it: render_window is dropped
EndMain(status, how) ==
    /\ pc' = how
    /\ exit_status' = status
    /\ released' = released \o DropRenderWindow
    /\ acquired' = {}

-----------------------------------------------------------------------------
(* save_selection *)

\* XGetImage returns NULL when a problem occurs; a block of no pixels may be one
XGetImageResults(width, height) ==
    IF width = 0 \/ height = 0 THEN {"image", "NULL"} ELSE {"image"}

\* the number of bytes collected from width * height pixels, three per pixel
RgbLen(width, height) == 3 * (width * height)

SaveSelection(p1, p2) ==
    LET r == Rect(p1, p2)
        path == ResolvePath(formatted)
        shown == ClearWindow(overlay)
    IN  /\ filepath' = path
        /\ overlay' = shown
        /\ capture' = Append(capture, [x |-> r.x, y |-> r.y, width |-> r.width,
                                       height |-> r.height, surface |-> shown])
        /\ \E image \in XGetImageResults(r.width, r.height), saved \in {"Ok", "Err"} :
             IF image = "NULL"
             THEN \* (*image).data dereferences a null pointer
                  /\ calls' = <<"XClearWindow", "XGetImage">>
                  /\ rgb_len' = -1
                  /\ output' = output
                  /\ pc' = "crashed"
                  /\ exit_status' = 139
                  /\ UNCHANGED <<released, acquired>>
             ELSE /\ calls' = <<"XClearWindow", "XGetImage", "save_buffer">>
                  /\ rgb_len' = RgbLen(r.width, r.height)
                  /\ IF saved = "Ok"
                     THEN /\ output' = Append(output, [path |-> path, width |-> r.width,
                                              height |-> r.height,
                                              len |-> RgbLen(r.width, r.height)])
                          /\ EndMain(0, "exited")
                     ELSE \* .unwrap() panics
                          /\ output' = output
                          /\ EndMain(101, "panicked")

-----------------------------------------------------------------------------
(* handle_events: one action per arm of the match on event.type_ *)

\* time passes while XNextEvent blocks
Wait(d) ==
    /\ pc = "loop"
    /\ d > 0
    /\ now + d <= MaxTime
    /\ now' = now + d
    /\ UNCHANGED <<exitVars, saveVars, loopVars, histVars, acquired, screen_data,
                   event, overlay, calls, formatted, pixel, placed, rgb>>

\* XNextEvent returns an event
Fetched == pc = "loop"

\* MotionNotify. In the program recordAlways is TRUE (point_two is assigned
\* before the throttle is asked), anyState is FALSE (only a Selecting state
\* follows the pointer) and stampAlways is FALSE (last_update is assigned only
\* next to draw_selection).
MotionCore(pos, recordAlways, anyState, stampAlways) ==
    LET t == now
        elapsed == t - last_update
        allowed == ThrottleAllows(elapsed)
    IN  /\ Fetched
        /\ event' = [type |-> "MotionNotify", x |-> pos.x, y |-> pos.y,
                     button |-> 0, keycode |-> 0]
        /\ IF (anyState \/ selection = "Selecting")
              /\ (pos.x # point_two.x \/ pos.y # point_two.y)
           THEN /\ point_two' = IF recordAlways \/ allowed THEN pos ELSE point_two
                /\ request' = <<[t |-> t, elapsed |-> elapsed, accepted |-> allowed]>>
                /\ prev_request' = request
                /\ IF allowed
                   THEN \E lag \in DrawLags :
                          /\ overlay' = DrawSelection(point_one, pos)
                          /\ calls' = DrawCalls
                          /\ last_update' = t + lag
                          /\ now' = t + lag
                          /\ move_draw_at' = t
                          /\ prev_move_draw_at' = move_draw_at
                   ELSE /\ calls' = <<>>
                        /\ now' = now
                        /\ last_update' = IF stampAlways THEN t ELSE last_update
                        /\ UNCHANGED <<overlay, move_draw_at, prev_move_draw_at>>
           ELSE /\ calls' = <<>>
                /\ now' = now
                /\ UNCHANGED <<point_two, overlay, last_update, move_draw_at,
                               prev_move_draw_at, request, prev_request>>
        /\ UNCHANGED <<point_one, selection, gesture, pressed_at, released_at>>
        /\ UNCHANGED <<exitVars, saveVars, acquired, screen_data, formatted, pixel, placed, rgb>>

MotionStep(pos, recordAlways) == MotionCore(pos, recordAlways, FALSE, FALSE)

\* a plausible bug: the position is recorded only when the throttle allows a redraw
MotionNotify_dropped(pos) == MotionStep(pos, FALSE)

\* a plausible bug: the pointer is followed in every selection state
MotionNotify_anyState(pos) == MotionCore(pos, TRUE, TRUE, FALSE)

\* a plausible bug: a rejected request resets the throttle period as well
MotionNotify_stampAlways(pos) == MotionCore(pos, TRUE, FALSE, TRUE)

MotionNotify(pos) == MotionStep(pos, TRUE)

\* ButtonPress. In the program primaryOnly is TRUE (only Button1 is looked at)
\* and restart is TRUE (point_one is assigned whatever the selection state).
PressStep(pos, button, primaryOnly, restart) ==
    /\ Fetched
    /\ event' = [type |-> "ButtonPress", x |-> pos.x, y |-> pos.y,
                 button |-> button, keycode |-> 0]
    /\ now' = now
    /\ calls' = <<>>
    /\ IF button = Button1 \/ ~primaryOnly
       THEN /\ point_one' = IF restart \/ selection = "NotCreated" THEN pos ELSE point_one
            /\ point_two' = pos
            /\ selection' = "Selecting"
            /\ gesture' = "pressed"
            /\ pressed_at' = pos
            /\ released_at' = pos
            /\ request' = <<>>
            /\ prev_request' = <<>>
       ELSE UNCHANGED <<point_one, point_two, selection, gesture, pressed_at,
                        released_at, request, prev_request>>
    /\ UNCHANGED <<last_update, overlay, move_draw_at, prev_move_draw_at>>
    /\ UNCHANGED <<exitVars, saveVars, acquired, screen_data, formatted, pixel, placed, rgb>>

\* a plausible bug: every button starts a selection
ButtonPress_anyButton(pos, button) == PressStep(pos, button, FALSE, TRUE)

\* a plausible bug: a press over an existing selection keeps its first corner
ButtonPress_keepAnchor(pos, button) == PressStep(pos, button, TRUE, FALSE)

ButtonPress(pos, button) == PressStep(pos, button, TRUE, TRUE)

\* ButtonRelease. draws is TRUE in the program: draw_selection is called
\* without asking the throttle.
ReleaseStep(pos, button, draws) ==
    /\ Fetched
    /\ event' = [type |-> "ButtonRelease", x |-> pos.x, y |-> pos.y,
                 button |-> button, keycode |-> 0]
    /\ now' = now
    /\ IF button = Button1
       THEN /\ point_two' = pos
            /\ IF draws
               THEN overlay' = DrawSelection(point_one, pos) /\ calls' = DrawCalls
               ELSE overlay' = overlay /\ calls' = <<>>
            /\ selection' = "Selected"
            /\ gesture' = IF gesture = "none" THEN "none" ELSE "released"
            /\ released_at' = pos
            /\ request' = <<>>
            /\ prev_request' = <<>>
       ELSE /\ calls' = <<>>
            /\ UNCHANGED <<point_two, overlay, selection, gesture, released_at,
                           request, prev_request>>
    /\ UNCHANGED <<point_one, last_update, pressed_at, move_draw_at, prev_move_draw_at>>
    /\ UNCHANGED <<exitVars, saveVars, acquired, screen_data, formatted, pixel, placed, rgb>>

\* a plausible bug: the release redraw goes through the throttle like a move
ButtonRelease_throttled(pos, button) ==
    ReleaseStep(pos, button, ThrottleAllows(now - last_update))

ButtonRelease(pos, button) == ReleaseStep(pos, button, TRUE)

\* a plausible bug: the two keycodes are swapped
KeyAction_swapped(keycode) ==
    IF keycode = KeycodeEnter THEN "cancel"
    ELSE IF keycode = KeycodeEsc THEN "confirm"
    ELSE "ignore"

\* keycode 9 returns, keycode 36 saves and returns, any other key is ignored
KeyAction(keycode) ==
    IF keycode = KeycodeEsc THEN "cancel"
    ELSE IF keycode = KeycodeEnter THEN "confirm"
    ELSE "ignore"

\* a plausible bug: the confirm key always saves the two points
ConfirmPoints_current(sel, p1, p2, sd) == <<p1, p2>>

\* the points handed to save_selection by the match on selection
ConfirmPoints(sel, p1, p2, sd) ==
    IF sel = "NotCreated"
    THEN <<Point(0, 0), Point(sd.width, sd.height)>>
    ELSE <<p1, p2>>

KeyPress(keycode) ==
    /\ Fetched
    /\ event' = [type |-> "KeyPress", x |-> 0, y |-> 0, button |-> 0, keycode |-> keycode]
    /\ now' = now
    /\ CASE KeyAction(keycode) = "cancel" ->
              /\ calls' = <<>>
              /\ EndMain(0, "exited")
              /\ UNCHANGED <<overlay, saveVars>>
         [] KeyAction(keycode) = "confirm" ->
              LET pts == ConfirmPoints(selection, point_one, point_two, screen_data)
              IN  SaveSelection(pts[1], pts[2])
         [] OTHER ->
              /\ calls' = <<>>
              /\ UNCHANGED <<overlay, saveVars, exitVars, acquired>>
    /\ UNCHANGED <<loopVars, histVars, screen_data, formatted, pixel, placed, rgb>>

\* any other event type: the `_ => {}` arm
OtherEvent ==
    /\ Fetched
    /\ event' = [type |-> "MappingNotify", x |-> 0, y |-> 0, button |-> 0, keycode |-> 0]
    /\ now' = now
    /\ calls' = <<>>
    /\ UNCHANGED <<loopVars, histVars, overlay>>
    /\ UNCHANGED <<exitVars, saveVars, acquired, screen_data, formatted, pixel, placed, rgb>>

Next ==
    \/ InitXPanics
    \/ MainStart
    \/ \E d \in ClockSteps : Wait(d)
    \/ \E pos \in Positions : MotionNotify(pos)
    \/ \E e \in ButtonEvents : ButtonPress(e.pos, e.button)
    \/ \E e \in ButtonEvents : ButtonRelease(e.pos, e.button)
    \/ \E k \in Keycodes : KeyPress(k)
    \/ OtherEvent

Spec == Init /\ [][Next]_vars

-----------------------------------------------------------------------------
(* PathSpec: the path normalisation on every formatted argument up to MaxLen *)

Chars == {" ", ".", "p", "n", "g"}
Strings(n) == [1..n -> Chars]

PathInit ==
    /\ pc = "path"
    /\ exit_status = -1
    /\ acquired = {"display", "window", "gc"}
    /\ released = <<>>
    /\ screen_data \in ScreenSizes
    /\ point_one = Point(0, 0)
    /\ point_two = Point(0, 0)
    /\ selection = "NotCreated"
    /\ last_update = 0
    /\ now = 0
    /\ event = NoEvent
    /\ overlay = Cleared
    /\ calls = <<>>
    /\ capture = <<>>
    /\ rgb_len = -1
    /\ output = <<>>
    /\ \E n \in 0..MaxLen : formatted \in Strings(n)
    /\ filepath = <<>>
    /\ gesture = "none"
    /\ pressed_at = Point(0, 0)
    /\ released_at = Point(0, 0)
    /\ request = <<>>
    /\ prev_request = <<>>
    /\ move_draw_at = -1
    /\ prev_move_draw_at = -1
    /\ pixel = {}
    /\ placed = <<0, 0, 0>>
    /\ rgb = <<>>

\* lines 392-399 of save_selection
ResolveOutputPath ==
    /\ pc = "path"
    /\ filepath' = ResolvePath(formatted)
    /\ pc' = "resolved"
    /\ UNCHANGED <<exit_status, acquired, released, screen_data, now, event, overlay,
                   calls, capture, rgb_len, output, formatted, pixel, placed, rgb>>
    /\ UNCHANGED <<loopVars, histVars>>

PathNext == ResolveOutputPath

PathSpec == PathInit /\ [][PathNext]_vars

-----------------------------------------------------------------------------
(* PixelSpec: the closure of save_selection that turns one native pixel  *)
(* into three bytes, applied to pixels composed under bounded masks       *)

\* p & mask
And(p, mask) == p \cap mask

\* u32::trailing_zeros: the position of the lowest 1 bit, 32 for the word 0
TrailingZeros(mask) ==
    IF mask = {} THEN 32 ELSE CHOOSE i \in mask : \A j \in mask : i <= j

\* p >> k, for k below 32
Shr(p, k) == {i - k : i \in {j \in p : j >= k}}

\* p << k, the bits pushed beyond position 31 are lost
Shl(p, k) == {i + k : i \in p} \cap U32Bits

\* `as u8`: the low eight bits are kept
AsU8(p) == {i \in p : i < 8}

RECURSIVE Pow2(_)
Pow2(n) == IF n = 0 THEN 1 ELSE 2 * Pow2(n - 1)

RECURSIVE Value(_)
\* the number a word of up to 31 bits stands for
Value(p) ==
    IF p = {} THEN 0
    ELSE LET i == CHOOSE j \in p : TRUE IN Pow2(i) + Value(p \ {i})

RECURSIVE BitsFrom(_, _)
\* the 1 bits of n, the lowest of them placed at position i
BitsFrom(n, i) ==
    IF n = 0 THEN {}
    ELSE (IF n % 2 = 1 THEN {i} ELSE {}) \cup BitsFrom(n \div 2, i + 1)

\* the word of a number
BitsOf(n) == BitsFrom(n, 0)

\* a plausible bug: the masked bits are not moved down to bit 0
Channel_unshifted(p, mask) == AsU8(And(p, mask))

\* ((*p & mask) >> mask.trailing_zeros()) as u8
Channel(p, mask) == AsU8(Shr(And(p, mask), TrailingZeros(mask)))

\* the closure body: [red, green, blue]
PixelBytes(p, sd) ==
    <<Value(Channel(p, sd.rmask)), Value(Channel(p, sd.gmask)),
      Value(Channel(p, sd.bmask))>>

\* the orders in which the three channels can lie in the word, lowest first
ChannelOrders ==
    {o \in [1..3 -> {"r", "g", "b"}] : {o[i] : i \in 1..3} = {"r", "g", "b"}}

\* the channel values tried for a mask of the given width: none, the lowest
\* bit, the highest bit, all bits
ChannelValues(width) == {0, 1, Pow2(width - 1), Pow2(width) - 1}

\* the masks of a visual whose channels are w.r, w.g and w.b bits wide and lie
\* next to each other in the order o, the lowest at bit `bottom`
MasksOf(w, o, bottom) ==
    LET low(i) == IF i = 1 THEN bottom
                  ELSE IF i = 2 THEN bottom + w[o[1]]
                  ELSE bottom + w[o[1]] + w[o[2]]
        at(c) == CHOOSE i \in 1..3 : o[i] = c
    IN  [rmask |-> Bits(low(at("r")), w.r), gmask |-> Bits(low(at("g")), w.g),
         bmask |-> Bits(low(at("b")), w.b)]

\* the pixel a server stores for the channel values v under the masks m
Compose(v, m) ==
    Shl(BitsOf(v[1]), TrailingZeros(m.rmask))
        \cup Shl(BitsOf(v[2]), TrailingZeros(m.gmask))
        \cup Shl(BitsOf(v[3]), TrailingZeros(m.bmask))

PixelInit ==
    /\ pc = "pixel"
    /\ exit_status = -1
    /\ acquired = {"display", "window", "gc"}
    /\ released = <<>>
    /\ \E w \in [{"r", "g", "b"} -> 1..MaxBits], o \in ChannelOrders :
         \E bottom \in {0, 32 - (w.r + w.g + w.b)} :
         \E r \in ChannelValues(w.r), g \in ChannelValues(w.g), b \in ChannelValues(w.b) :
            LET m == MasksOf(w, o, bottom)
            IN  /\ screen_data = [width |-> MaxX + 2, height |-> 2, rmask |-> m.rmask,
                                  gmask |-> m.gmask, bmask |-> m.bmask]
                /\ placed = <<r, g, b>>
                /\ pixel = Compose(<<r, g, b>>, m)
    /\ point_one = Point(0, 0)
    /\ point_two = Point(0, 0)
    /\ selection = "NotCreated"
    /\ last_update = 0
    /\ now = 0
    /\ event = NoEvent
    /\ overlay = Cleared
    /\ calls = <<>>
    /\ capture = <<>>
    /\ rgb_len = -1
    /\ output = <<>>
    /\ formatted = DefaultName
    /\ filepath = <<>>
    /\ gesture = "none"
    /\ pressed_at = Point(0, 0)
    /\ released_at = Point(0, 0)
    /\ request = <<>>
    /\ prev_request = <<>>
    /\ move_draw_at = -1
    /\ prev_move_draw_at = -1
    /\ rgb = <<>>

\* lines 415-426 of save_selection, for one pixel of the image
ExtractPixel ==
    /\ pc = "pixel"
    /\ rgb' = PixelBytes(pixel, screen_data)
    /\ pc' = "extracted"
    /\ UNCHANGED <<exit_status, acquired, released, screen_data, now, event, overlay,
                   calls, capture, rgb_len, output, formatted, filepath, pixel, placed>>
    /\ UNCHANGED <<loopVars, histVars>>

PixelNext == ExtractPixel

PixelSpec == PixelInit /\ [][PixelNext]_vars

-----------------------------------------------------------------------------
(* RectSpec: the rectangle of draw_selection and save_selection, computed *)
(* for every pair of points of a bounded square around the origin         *)

RectPoints == {Point(x, y) : x \in -MaxCoord..MaxCoord, y \in -MaxCoord..MaxCoord}

RectInit ==
    /\ pc = "rect"
    /\ exit_status = -1
    /\ acquired = {"display", "window", "gc"}
    /\ released = <<>>
    /\ screen_data \in ScreenSizes
    /\ point_one \in RectPoints
    /\ point_two \in RectPoints
    /\ selection = "Selected"
    /\ last_update = 0
    /\ now = 0
    /\ event = NoEvent
    /\ overlay = Cleared
    /\ calls = <<>>
    /\ capture = <<>>
    /\ rgb_len = -1
    /\ output = <<>>
    /\ formatted = DefaultName
    /\ filepath = <<>>
    /\ gesture = "none"
    /\ pressed_at = Point(0, 0)
    /\ released_at = Point(0, 0)
    /\ request = <<>>
    /\ prev_request = <<>>
    /\ move_draw_at = -1
    /\ prev_move_draw_at = -1
    /\ pixel = {}
    /\ placed = <<0, 0, 0>>
    /\ rgb = <<>>

\* lines 358-362 and 370-373 of draw_selection, lines 380-384 and 404-409 of
\* save_selection: the rectangle each hands to the X server
ComputeRects ==
    /\ pc = "rect"
    /\ overlay' = DrawSelection(point_one, point_two)
    /\ LET r == Rect(point_one, point_two)
       IN  capture' = <<[x |-> r.x, y |-> r.y, width |-> r.width, height |-> r.height,
                         surface |-> ClearWindow(overlay)]>>
    /\ calls' = <<"XDrawRectangle", "XGetImage">>
    /\ pc' = "computed"
    /\ UNCHANGED <<exit_status, acquired, released, screen_data, now, event, rgb_len,
                   output, formatted, filepath, pixel, placed, rgb>>
    /\ UNCHANGED <<loopVars, histVars>>

RectNext == ComputeRects

RectSpec == RectInit /\ [][RectNext]_vars

-----------------------------------------------------------------------------
(* Properties *)

Abs(n) == IF n < 0 THEN -n ELSE n
Contains(s, pat) == \E i \in 1..Len(s) : StartsWith(SubSeq(s, i, Len(s)), pat)
Terminated == pc \in {"exited", "panicked", "crashed"}
Confirmed == event.type = "KeyPress" /\ event.keycode = KeycodeEnter
Cancelled == event.type = "KeyPress" /\ event.keycode = KeycodeEsc
EventPos == Point(event.x, event.y)

\* the outline of the rectangle spanned by two points, written out
OutlineOf(p1, p2) ==
    [outline |-> TRUE, x |-> Min(p1.x, p2.x), y |-> Min(p1.y, p2.y),
     width |-> Abs(p2.x - p1.x), height |-> Abs(p2.y - p1.y)]

\* C1: when the confirm key is processed in state NotCreated, save_selection is
\* called once, with the rectangle from (0,0) to (screen width, screen height),
\* whatever events came before, and the event loop has ended.
C1_ConfirmWithoutDrag ==
    (Confirmed /\ selection = "NotCreated") =>
        /\ Terminated
        /\ Len(capture) = 1
        /\ capture[1].x = 0
        /\ capture[1].y = 0
        /\ capture[1].width = screen_data.width
        /\ capture[1].height = screen_data.height

C1_Witness ==
    /\ Confirmed
    /\ selection = "NotCreated"
    /\ now > 0
    /\ Len(capture) = 1
    /\ capture[1].width = screen_data.width
    /\ pc = "exited"

\* C2: after a primary press at p1, moves, a primary release at p2 and the
\* confirm key, save_selection has been called exactly once, with origin
\* min(p1, p2) and size |p2.x - p1.x| by |p2.y - p1.y|, and the RGB buffer it
\* builds, and the file it saves, have width * height * 3 bytes.
C2_DragThenConfirm ==
    (Confirmed /\ gesture = "released") =>
        /\ Len(capture) = 1
        /\ capture[1].x = Min(pressed_at.x, released_at.x)
        /\ capture[1].y = Min(pressed_at.y, released_at.y)
        /\ capture[1].width = Abs(released_at.x - pressed_at.x)
        /\ capture[1].height = Abs(released_at.y - pressed_at.y)
        /\ rgb_len # -1 => rgb_len = capture[1].width * capture[1].height * 3
        /\ \A i \in 1..Len(output) :
              /\ output[i].width = capture[1].width
              /\ output[i].height = capture[1].height
              /\ output[i].len = capture[1].width * capture[1].height * 3

C2_Witness ==
    /\ Confirmed
    /\ gesture = "released"
    /\ released_at.x < pressed_at.x
    /\ released_at.y > pressed_at.y
    /\ Len(capture) = 1
    /\ capture[1].x = released_at.x
    /\ capture[1].y = pressed_at.y
    /\ Len(output) = 1
    /\ output[1].len = 3
    /\ rgb_len = 3

\* C3: every primary-button release redraws the rectangle of point_one and the
\* release position in the same step, whatever time has passed since the last
\* throttled redraw, so the overlay then shows the final rectangle.
C3_ReleaseRedraws ==
    (event.type = "ButtonRelease" /\ event.button = Button1 /\ pc = "loop") =>
        /\ calls = DrawCalls
        /\ point_two = EventPos
        /\ overlay = OutlineOf(point_one, EventPos)
        /\ selection = "Selected"

\* a release at an instant at which the throttle rejects a redraw
C3_Witness ==
    /\ event.type = "ButtonRelease"
    /\ event.button = Button1
    /\ pc = "loop"
    /\ gesture = "released"
    /\ ~ThrottleAllows(now - last_update)
    /\ point_one.x # point_two.x
    /\ point_one.y # point_two.y
    /\ calls = DrawCalls
    /\ overlay = OutlineOf(point_one, point_two)

\* C4: after a pointer-move processed in state Selecting, point_two is the
\* event's position whether or not the throttle allowed a redraw, and every
\* redraw is of the rectangle of point_one and the latest point_two.
C4_MoveAlwaysRecorded ==
    /\ (event.type = "MotionNotify" /\ selection = "Selecting" /\ pc = "loop") =>
            point_two = EventPos
    /\ (calls = DrawCalls /\ pc = "loop") => overlay = OutlineOf(point_one, point_two)

\* a move the throttle rejected: recorded, not drawn
C4_Witness ==
    /\ event.type = "MotionNotify"
    /\ selection = "Selecting"
    /\ pc = "loop"
    /\ request # <<>>
    /\ ~request[1].accepted
    /\ calls = <<>>
    /\ point_two = EventPos
    /\ point_two # point_one
    /\ overlay # OutlineOf(point_one, point_two)

\* C5: two consecutive pointer-move redraws are more than
\* MIN_TIME_BETWEEN_UPDATES (8,333,333 ns) apart, so of two pointer-move
\* redraw requests of a drag less than that apart at most one is drawn.
C5_ThrottleUpperBound ==
    /\ MIN_TIME_BETWEEN_UPDATES = 8333333
    /\ prev_move_draw_at >= 0 =>
            move_draw_at - prev_move_draw_at > MIN_TIME_BETWEEN_UPDATES
    /\ (request # <<>> /\ prev_request # <<>>
            /\ request[1].t - prev_request[1].t < MIN_TIME_BETWEEN_UPDATES) =>
            ~(request[1].accepted /\ prev_request[1].accepted)

\* two pointer-move redraws within one drag
C5_Witness ==
    /\ prev_move_draw_at >= 0
    /\ request # <<>>
    /\ prev_request # <<>>
    /\ request[1].accepted
    /\ request[1].t = move_draw_at
    /\ prev_request[1].accepted
    /\ prev_request[1].t = prev_move_draw_at

\* C6 as claimed: two pointer-move redraw requests of a drag more than
\* MIN_TIME_BETWEEN_UPDATES apart are both accepted.
C6_BothAccepted ==
    (request # <<>> /\ prev_request # <<>>
        /\ request[1].t - prev_request[1].t > MIN_TIME_BETWEEN_UPDATES) =>
        (request[1].accepted /\ prev_request[1].accepted)

\* C6 amended: a pointer-move redraw request of a drag is accepted, and drawn,
\* exactly when more than MIN_TIME_BETWEEN_UPDATES has passed since last_update
\* (taken at loop start and again after each pointer-move redraw); so of two
\* successive requests more than that apart the later is accepted whenever the
\* earlier was rejected.
C6_ThrottleGate ==
    /\ request # <<>> =>
            (request[1].accepted <=> request[1].elapsed > MIN_TIME_BETWEEN_UPDATES)
    /\ (request # <<>> /\ request[1].accepted) =>
            (move_draw_at = request[1].t /\ last_update >= request[1].t)
    /\ (request # <<>> /\ prev_request # <<>>
            /\ request[1].t - prev_request[1].t > MIN_TIME_BETWEEN_UPDATES
            /\ ~prev_request[1].accepted) =>
            request[1].accepted

\* a request rejected within the interval after loop start, and a later one accepted
C6_Witness ==
    /\ request # <<>>
    /\ prev_request # <<>>
    /\ ~prev_request[1].accepted
    /\ prev_request[1].t <= MIN_TIME_BETWEEN_UPDATES
    /\ request[1].accepted
    /\ request[1].t - prev_request[1].t > MIN_TIME_BETWEEN_UPDATES
    /\ calls = DrawCalls

\* C7: the cancel key ends the loop in every selection state: nothing is
\* captured, saved or drawn, and main returns with status 0 after dropping the
\* RenderWindow.
C7_Cancel ==
    Cancelled =>
        /\ pc = "exited"
        /\ exit_status = 0
        /\ capture = <<>>
        /\ output = <<>>
        /\ rgb_len = -1
        /\ calls = <<>>
        /\ acquired = {}
        /\ released = <<"XFreeGC", "XDestroyWindow", "XCloseDisplay">>

\* cancel after a finished drag
C7_Witness ==
    /\ Cancelled
    /\ selection = "Selected"
    /\ overlay.outline
    /\ pc = "exited"
    /\ capture = <<>>

\* C8 as claimed: on every exit path everything acquired from the display
\* has been released, in the order XFreeGC, XDestroyWindow, XCloseDisplay.
C8_ReleasedOnEveryExit ==
    Terminated =>
        /\ acquired = {}
        /\ released \in {<<>>, <<"XFreeGC", "XDestroyWindow", "XCloseDisplay">>}

\* C9 as claimed: the resolved path ends in exactly one ".png".
C9_SinglePngSuffix ==
    pc = "resolved" =>
        /\ EndsWith(filepath, PNG)
        /\ ~EndsWith(SubSeq(filepath, 1, Len(filepath) - Len(PNG)), PNG)

\* C10 as claimed: a name s without ".png" inside it and s + ".png" both
\* resolve to s + ".png".
C10_SameNameAnyName ==
    (pc = "resolved" /\ ~Contains(formatted, PNG)) =>
        /\ filepath = formatted \o PNG
        /\ ResolvePath(formatted \o PNG) = formatted \o PNG

\* C10 amended: a name s without ".png" inside it and without leading or
\* trailing whitespace, and s + ".png", both resolve to s + ".png".
C10_SameName ==
    (pc = "resolved" /\ ~Contains(formatted, PNG) /\ Trim(formatted) = formatted) =>
        /\ filepath = formatted \o PNG
        /\ ResolvePath(formatted \o PNG) = formatted \o PNG

C10_Witness ==
    /\ pc = "resolved"
    /\ formatted = <<"p", "g", ".", "n">>
    /\ filepath = <<"p", "g", ".", "n", ".", "p", "n", "g">>
    /\ ResolvePath(filepath) = filepath

\* C11 as stated: for non-overlapping masks of any width and order and a pixel
\* composed of channel values that fit them, the three bytes extracted are
\* exactly those values, red first.
C11_RoundTripAnyWidth == pc = "extracted" => rgb = placed

\* C11, amended: each extracted byte is the low eight bits of the channel value,
\* red first, whatever the order of the masks; it is the value itself when the
\* value is below 256, which every value is under a mask of at most 8 bits.
C11_RoundTrip ==
    pc = "extracted" =>
        /\ Len(rgb) = 3
        /\ \A c \in 1..3 : rgb[c] = placed[c] % 256
        /\ (\A c \in 1..3 : placed[c] < 256) => rgb = placed
        /\ Cardinality(screen_data.rmask) <= 8 => rgb[1] = placed[1]
        /\ Cardinality(screen_data.gmask) <= 8 => rgb[2] = placed[2]
        /\ Cardinality(screen_data.bmask) <= 8 => rgb[3] = placed[3]

\* 5-6-5 masks with blue lowest and red highest, every channel at a
\* different non-zero value, extracted
C11_Witness ==
    /\ pc = "extracted"
    /\ screen_data.bmask = Bits(0, 5)
    /\ screen_data.gmask = Bits(5, 6)
    /\ screen_data.rmask = Bits(11, 5)
    /\ placed = <<16, 63, 1>>
    /\ rgb = placed

\* C12 as stated: after a primary press and a release at the same position, the
\* confirm key has save_selection capture the zero-size rectangle at that
\* position, and the capture and the encoding end without a fatal error: one
\* image of no pixels is written and the process exits normally.
C12_ClickThenConfirm ==
    (Confirmed /\ gesture = "released" /\ pressed_at = released_at) =>
        /\ Len(capture) = 1
        /\ capture[1].x = pressed_at.x /\ capture[1].y = pressed_at.y
        /\ capture[1].width = 0 /\ capture[1].height = 0
        /\ pc = "exited"
        /\ exit_status = 0
        /\ Len(output) = 1
        /\ output[1].width = 0 /\ output[1].height = 0 /\ output[1].len = 0

\* C13: for every pair of points, the rectangle handed to XDrawRectangle and the
\* one handed to XGetImage have the component-wise minimum as origin and the
\* component-wise maximum minus that minimum as size, neither component of the
\* size is negative, and the two points swapped give the same rectangle.
C13_NormalizedRect ==
    pc = "computed" =>
        LET p1 == point_one
            p2 == point_two
            Normal(r) ==
                /\ r.x <= p1.x /\ r.x <= p2.x /\ r.x \in {p1.x, p2.x}
                /\ r.y <= p1.y /\ r.y <= p2.y /\ r.y \in {p1.y, p2.y}
                /\ r.x + r.width >= p1.x /\ r.x + r.width >= p2.x
                /\ r.x + r.width \in {p1.x, p2.x}
                /\ r.y + r.height >= p1.y /\ r.y + r.height >= p2.y
                /\ r.y + r.height \in {p1.y, p2.y}
                /\ r.width >= 0 /\ r.height >= 0
        IN  /\ Normal(capture[1])
            /\ overlay.outline /\ Normal(overlay)
            /\ Rect(p2, p1) = Rect(p1, p2)
            /\ DrawSelection(p2, p1) = overlay
            /\ \A f \in {"x", "y", "width", "height"} : Rect(p2, p1)[f] = capture[1][f]

\* the first point right of and above the second: the origin is neither point
C13_Witness ==
    /\ pc = "computed"
    /\ point_one = Point(MaxCoord, -1)
    /\ point_two = Point(-MaxCoord, 1)
    /\ capture[1].x = -MaxCoord /\ capture[1].y = -1
    /\ capture[1].width = 2 * MaxCoord /\ capture[1].height = 2
    /\ overlay = [outline |-> TRUE, x |-> -MaxCoord, y |-> -1,
                  width |-> 2 * MaxCoord, height |-> 2]

\* C14: whenever the confirm key has been processed, save_selection cleared the
\* overlay first and read the pixel block next, drew nothing in between, and the
\* surface it read shows no outline.
C14_ClearedBeforeCapture ==
    Confirmed =>
        /\ Len(capture) = 1
        /\ capture[1].surface = Cleared
        /\ overlay = Cleared
        /\ Len(calls) >= 2
        /\ calls[1] = "XClearWindow"
        /\ calls[2] = "XGetImage"
        /\ \A k \in 1..Len(calls) : calls[k] # "XDrawRectangle"

\* a confirm after a drag whose outline was on display, saved
C14_Witness ==
    /\ Confirmed
    /\ gesture = "released"
    /\ pressed_at.x # released_at.x
    /\ pressed_at.y # released_at.y
    /\ capture[1].surface = Cleared
    /\ capture[1].width > 0
    /\ Len(output) = 1

\* the events handle_events has no arm for, or whose arm does nothing
Ignored ==
    \/ event.type \notin {"MotionNotify", "ButtonPress", "ButtonRelease", "KeyPress"}
    \/ event.type \in {"ButtonPress", "ButtonRelease"} /\ event.button # Button1
    \/ event.type = "KeyPress" /\ event.keycode \notin {KeycodeEsc, KeycodeEnter}

Draws(cs) == {k \in 1..Len(cs) : cs[k] = "XDrawRectangle"}

\* C15: handling one event does at most one of: nothing, one redraw, confirm
\* and exit, cancel and exit. No event redraws twice or redraws and also
\* captures or exits, only the confirm and cancel keys end the loop, and an
\* event other than a pointer move, a primary press or release and those two
\* keys leaves the state, both points, the timestamp and the display as they
\* were and draws nothing.
C15_OneOutcomePerEvent ==
    [][pc = "loop" =>
         /\ Cardinality(Draws(calls')) <= 1
         /\ Draws(calls') # {} =>
               /\ pc' = "loop"
               /\ capture' = capture
               /\ output' = output
         /\ capture' # capture =>
               /\ Len(capture') = Len(capture) + 1
               /\ pc' # "loop"
               /\ Confirmed'
         /\ pc' # "loop" => (Confirmed' \/ Cancelled')
         /\ Cancelled' => (capture' = capture /\ calls' = <<>> /\ overlay' = overlay)
         /\ Ignored' =>
               /\ UNCHANGED <<selection, point_one, point_two, last_update, overlay>>
               /\ UNCHANGED <<pc, capture, output>>
               /\ calls' = <<>>
    ]_vars

\* a press of another button was handled while a drag was under way and its
\* outline on display
C15_Witness ==
    /\ pc = "loop"
    /\ event.type = "ButtonPress"
    /\ event.button # Button1
    /\ selection = "Selecting"
    /\ point_one # point_two
    /\ overlay = OutlineOf(point_one, point_two)
    /\ calls = <<>>

\* C16: a pointer move handled in state NotCreated or Selected, or in state
\* Selecting at the position point_two already holds, leaves the state, both
\* points, the last-redraw timestamp and the overlay unchanged.
C16_MoveOutsideDragIsNoop ==
    [][(/\ pc = "loop"
        /\ event'.type = "MotionNotify"
        /\ (selection # "Selecting" \/ EventPos' = point_two))
          => UNCHANGED <<selection, point_one, point_two, last_update, overlay>>
    ]_vars

\* a move to another position was handled in state Selected, at a time when
\* the throttle would have let a redraw through
C16_Witness ==
    /\ pc = "loop"
    /\ event.type = "MotionNotify"
    /\ selection = "Selected"
    /\ EventPos # point_two
    /\ EventPos # point_one
    /\ ThrottleAllows(now - last_update)
    /\ overlay = OutlineOf(point_one, point_two)
    /\ calls = <<>>

\* C17: once a primary press has been handled, in whatever state, both points
\* are the press position and the state is Selecting; and a confirm that comes
\* before any move or release captures the zero-size rectangle at that position.
C17_PressRestarts ==
    /\ (pc = "loop" /\ event.type = "ButtonPress" /\ event.button = Button1) =>
          /\ point_one = EventPos
          /\ point_two = EventPos
          /\ selection = "Selecting"
    /\ (Confirmed /\ gesture = "pressed" /\ request = <<>>) =>
          /\ selection = "Selecting"
          /\ Len(capture) = 1
          /\ capture[1].x = pressed_at.x /\ capture[1].y = pressed_at.y
          /\ capture[1].width = 0 /\ capture[1].height = 0

\* an earlier drag was redrawn, then a press elsewhere than the origin, then
\* the confirm key
C17_Witness ==
    /\ Confirmed
    /\ gesture = "pressed"
    /\ request = <<>>
    /\ move_draw_at # -1
    /\ pressed_at = Point(MaxX, 1)
    /\ capture[1].x = MaxX /\ capture[1].y = 1
    /\ capture[1].width = 0 /\ capture[1].height = 0

\* C18 as stated: in every state whose selection is not NotCreated a primary
\* press has been handled and point_one is the position of the latest one.
C18_PointsFromPress ==
    selection # "NotCreated" => (gesture # "none" /\ point_one = pressed_at)

\* C19: the last-redraw timestamp changes only in a step that redraws: the step
\* handles a pointer move, calls draw_selection for the current points and takes
\* the timestamp from the clock.
C19_StampOnlyOnRedraw ==
    [][(pc = "loop" /\ last_update' # last_update) =>
         /\ event'.type = "MotionNotify"
         /\ calls' = DrawCalls
         /\ overlay' = OutlineOf(point_one', point_two')
         /\ last_update' = now'
    ]_vars

\* a request rejected a full interval after an earlier redraw: the position is
\* recorded and the timestamp is still that of the earlier redraw
C19_Witness ==
    /\ pc = "loop"
    /\ event.type = "MotionNotify"
    /\ request # <<>>
    /\ ~request[1].accepted
    /\ request[1].t = now
    /\ request[1].elapsed = MIN_TIME_BETWEEN_UPDATES
    /\ move_draw_at # -1
    /\ last_update = now - MIN_TIME_BETWEEN_UPDATES
    /\ point_two = EventPos
    /\ calls = <<>>

\* C20: in every state of the loop whose selection is Selected the overlay
\* shows the outline of the normalized rectangle of point_one and point_two,
\* and a confirm in that state captures that rectangle.
C20_SelectedShowsRect ==
    /\ (pc = "loop" /\ selection = "Selected") =>
          overlay = OutlineOf(point_one, point_two)
    /\ (Confirmed /\ selection = "Selected") =>
          /\ Len(capture) = 1
          /\ capture[1].x = Min(point_one.x, point_two.x)
          /\ capture[1].y = Min(point_one.y, point_two.y)
          /\ capture[1].width = Abs(point_two.x - point_one.x)
          /\ capture[1].height = Abs(point_two.y - point_one.y)

\* a drag to the left and upwards, released, then confirmed
C20_Witness ==
    /\ Confirmed
    /\ selection = "Selected"
    /\ gesture = "released"
    /\ point_one = pressed_at
    /\ point_two = released_at
    /\ point_one.x > point_two.x
    /\ point_one.y > point_two.y
    /\ capture[1].x = point_two.x /\ capture[1].y = point_two.y
    /\ capture[1].width > 0 /\ capture[1].height > 0

====
